---- MODULE Spec2Model ----
(***************************************************************************)
(* Model of the DivEn RSPT library (lib/RSPT/RSPT.py, harm_oscill.py):     *)
(* enumeration of the zero-order basis, the harmonic-oscillator weight     *)
(* table, assembly of the perturbation matrix, the frequency shift, the   *)
(* variational diagonalisation and the RSPT recurrence.                    *)
(*                                                                         *)
(* Numbers.  The code computes in floating point; the model computes the  *)
(* same expressions exactly.  A rational is a pair <<n, d>> in lowest      *)
(* terms with d > 0.  A real of the form c1*sqrt(r1) + ... + ck*sqrt(rk)   *)
(* (ri square-free, ci rational, non-zero) is the set {<<ri, ci>>}: every  *)
(* weight of the table is one such term, every entry of W a sum of them.  *)
(***************************************************************************)
EXTENDS Integers, Sequences, FiniteSets, TLC

VARIABLES
    pc,            \* position in the calculation
    freqs,         \* mode frequency vector (sequence of positive integers)
    Emax,          \* energy ceiling (rational)
    generated,     \* list(gen_zero_approximation(sum(freqs)/2, Emax, freqs))
    zero_states,   \* the basis DataFrame: sequence of rows [idx, v, E]
    anh_coefs,     \* anharmonic terms: sequence of [ik, k]
    Wmat,          \* perturbation matrix
    Hmat,          \* the latest add_zero_approx: <<shift_freqs calls made
                   \* before it, the matrix returned>>
    Hprev,         \* the add_zero_approx before that one, likewise
    shifts,        \* argument of the latest shift_freqs
    nshift,        \* number of shift_freqs calls made
    raised,        \* the exception the latest call raised, or None
    tab_vmax,      \* MatElWeightDict's argument vmax
    tab_n,         \* MatElWeightDict's argument n
    Harm_weight_dict,  \* the table MatElWeightDict returned
    query,         \* the (n, dv, v) asked for
    closed_form,   \* MatElWeight(n, dv, v)
    looked_up,     \* Harm_weight_dict.get((n, dv, v))
    diag_Hmat,     \* diag_hmat's argument Hmat (a matrix of rationals)
    E0,            \* diag_hmat's argument E0: <<>> for None, or <<value>>
    basis_arg,     \* the rows of diag_hmat's argument zero_states, as passed
    Eigh_values,   \* the eigenvalues np.linalg.eigh returned, ascending
    Eigh_vectors,  \* its eigenvectors, column k a direction of integers
    new_index,     \* the labels diag_hmat computed, one for each basis row
    vib_states,    \* the table diag_hmat returned
    series_q,      \* RSPT_series's argument q
    series_Nmax,   \* RSPT_series's argument Nmax
    series_e       \* the coefficients e that RSPT_series returned

basisVars == <<freqs, Emax, generated>>
matrixVars == <<anh_coefs, Wmat, Hmat, Hprev, shifts, nshift>>
tableVars == <<tab_vmax, tab_n, Harm_weight_dict, query, closed_form, looked_up>>
diagVars == <<diag_Hmat, E0, basis_arg, Eigh_values, Eigh_vectors, new_index,
              vib_states>>
seriesVars == <<series_q, series_Nmax, series_e>>

vars == <<pc, zero_states, raised, basisVars, matrixVars, tableVars, diagVars,
          seriesVars>>

\* -------------------------------------------------------------- bounds
MaxModes == 3
MaxFreq == 2
MaxE == 4
MaxPow == 2
MaxV == 8
MaxShiftCalls == 2

None == "None"

Range(s) == {s[i] : i \in 1..Len(s)}

\* ---------------------------------------------------- exact arithmetic
Abs(x) == IF x < 0 THEN -x ELSE x

RECURSIVE GCD(_, _)
GCD(a, b) == IF b = 0 THEN a ELSE GCD(b, a % b)

\* the rational n/d in lowest terms, d > 0
Frac(n, d) ==
    LET g == GCD(Abs(n), Abs(d))
        s == IF d < 0 THEN -1 ELSE 1
    IN  <<(s * n) \div g, (s * d) \div g>>

QInt(n) == <<n, 1>>
QAdd(a, b) ==
    LET g == GCD(a[2], b[2])
    IN  Frac(a[1] * (b[2] \div g) + b[1] * (a[2] \div g), (a[2] \div g) * b[2])
QNeg(a) == <<-a[1], a[2]>>
QSub(a, b) == QAdd(a, QNeg(b))
QMul(a, b) == Frac(a[1] * b[1], a[2] * b[2])
QDiv(a, b) == Frac(a[1] * b[2], a[2] * b[1])
QLt(a, b) == a[1] * b[2] < b[1] * a[2]
QLe(a, b) == a[1] * b[2] <= b[1] * a[2]

RECURSIVE QSum(_)
QSum(s) == IF s = <<>> THEN QInt(0) ELSE QAdd(Head(s), QSum(Tail(s)))

\* ------------------------------------------- gen_zero_approximation
\* the generator with the ceiling test written "E < Emax"
RECURSIVE gen_strict_ceiling(_, _, _, _, _)
gen_strict_ceiling(E, Emax_, freqs_, memo, n) ==
    IF n >= Len(freqs_)
    THEN [out |-> << [v |-> memo, E |-> E] >>, memo |-> memo]
    ELSE IF QLt(E, Emax_)
    THEN LET a == gen_strict_ceiling(E, Emax_, freqs_, memo, n + 1)
             m1 == [a.memo EXCEPT ![n + 1] = @ + 1]
             b == gen_strict_ceiling(QAdd(E, QInt(freqs_[n + 1])), Emax_,
                                     freqs_, m1, n)
         IN  [out |-> a.out \o b.out, memo |-> b.memo]
    ELSE [out |-> <<>>, memo |-> [memo EXCEPT ![n + 1] = 0]]

\* The recursive generator, with the shared list memo threaded through:
\* the result is the list of yields and memo as the call leaves it.
\* n is the code's 0-based mode number; sequences here are 1-based.
RECURSIVE gen_zero_approximation(_, _, _, _, _)
gen_zero_approximation(E, Emax_, freqs_, memo, n) ==
    IF n >= Len(freqs_)
    THEN [out |-> << [v |-> memo, E |-> E] >>, memo |-> memo]
    ELSE IF QLe(E, Emax_)
    THEN LET a == gen_zero_approximation(E, Emax_, freqs_, memo, n + 1)
             m1 == [a.memo EXCEPT ![n + 1] = @ + 1]
             b == gen_zero_approximation(QAdd(E, QInt(freqs_[n + 1])), Emax_,
                                         freqs_, m1, n)
         IN  [out |-> a.out \o b.out, memo |-> b.memo]
    ELSE [out |-> <<>>, memo |-> [memo EXCEPT ![n + 1] = 0]]

\* sum(freqs) / 2
ZeroPointEnergy(freqs_) ==
    QDiv(QSum([i \in 1..Len(freqs_) |-> QInt(freqs_[i])]), QInt(2))

\* lexicographic "<" on tuples of integers of one length
RECURSIVE TupleLt(_, _)
TupleLt(s, t) ==
    IF s = <<>> THEN FALSE
    ELSE IF Head(s) # Head(t) THEN Head(s) < Head(t)
    ELSE TupleLt(Tail(s), Tail(t))

\* the sort key ['E'] + labels[:-1]
KeyLt(r1, r2) ==
    \/ QLt(r1.E, r2.E)
    \/ r1.E = r2.E /\ TupleLt(r1.v, r2.v)

\* insert row r into the ascending sequence s, after the rows that are
\* not greater (a stable sort)
RECURSIVE InsertRow(_, _)
InsertRow(r, s) ==
    IF s = <<>> THEN <<r>>
    ELSE IF KeyLt(r, Head(s)) THEN <<r>> \o s
    ELSE <<Head(s)>> \o InsertRow(r, Tail(s))

\* the DataFrame left in generation order
SortValuesSkipped(s) == s

RECURSIVE SortValues(_)
SortValues(s) ==
    IF s = <<>> THEN <<>>
    ELSE InsertRow(s[Len(s)], SortValues(SubSeq(s, 1, Len(s) - 1)))

\* zero_states.index = range(len(zero_states))
Reindex(s) == [i \in 1..Len(s) |-> [idx |-> i - 1, v |-> s[i].v, E |-> s[i].E]]

\* the DataFrame built from the generator: rows labelled 0..N-1 in
\* generation order
DataFrame(g) == [i \in 1..Len(g) |-> [idx |-> i - 1, v |-> g[i].v, E |-> g[i].E]]

zero_approximation(Emax_, freqs_) ==
    LET g == gen_zero_approximation(ZeroPointEnergy(freqs_), Emax_, freqs_,
                                    [i \in 1..Len(freqs_) |-> 0], 0).out
    IN  [gen |-> g, states |-> Reindex(SortValues(DataFrame(g)))]

\* zero_states = zero_states[zero_states['v3'] % 2 == 1];
\* zero_states.index = range(len(zero_states)), for a basis of three modes
\* or more
OddV3Rows(states) ==
    Reindex(SelectSeq(states, LAMBDA r : r.v[3] % 2 = 1))


\* ------------------------------------------------------ surds c*sqrt(r)
\* A weight is c * sqrt(r): [c |-> rational, r |-> square-free integer],
\* with zero written [c |-> 0, r |-> 1].
ZeroS == [c |-> QInt(0), r |-> 1]

RatS(q) == IF q[1] = 0 THEN ZeroS ELSE [c |-> q, r |-> 1]

\* the largest s with s*s dividing n (n >= 1), searched from p upwards
RECURSIVE SquarePart(_, _)
SquarePart(n, p) ==
    IF p * p > n THEN 1
    ELSE IF n % (p * p) = 0 THEN p * SquarePart(n \div (p * p), p)
    ELSE SquarePart(n, p + 1)

\* n ** 0.5 for an integer n >= 0
Sqrt(n) ==
    IF n = 0 THEN ZeroS
    ELSE LET s == SquarePart(n, 2) IN [c |-> QInt(s), r |-> n \div (s * s)]

SurdScale(q, x) ==
    IF q[1] = 0 \/ x.c[1] = 0 THEN ZeroS ELSE [c |-> QMul(q, x.c), r |-> x.r]

SurdMul(x, y) ==
    LET g == GCD(x.r, y.r)
    IN  SurdScale(QMul(x.c, QInt(g)),
                  [c |-> y.c, r |-> (x.r \div g) * (y.r \div g)])

\* q ** 0.5 for a rational q >= 0
SqrtQ(q) == SurdScale(Frac(1, q[2]), Sqrt(q[1] * q[2]))

\* ------------------------------------------------------- harm_oscill.py
MaxOrder == 8

\* MatElWeight(n, dv, v): the closed forms, branch for branch
MatElWeight(n, dv, v) ==
    IF n = 0 THEN RatS(QInt(1))
    ELSE IF n = 1 THEN SqrtQ(Frac(v, 2))
    ELSE IF n = 2 THEN
        IF dv = 0 THEN RatS(Frac(2 * v + 1, 2))
        ELSE SurdScale(Frac(1, 2), Sqrt(v * (v - 1)))
    ELSE IF n = 3 THEN
        IF dv = 1
        THEN SurdScale(Frac(3, 4),
                       SurdMul(Sqrt(2), SurdMul(RatS(QInt(v)), Sqrt(v))))
        ELSE SurdScale(Frac(1, 4), Sqrt(2 * v * (v - 1) * (v - 2)))
    ELSE IF n = 4 THEN
        IF dv = 0 THEN RatS(Frac(6 * v * v + 6 * v + 3, 4))
        ELSE IF dv = 2
        THEN SurdScale(Frac(2 * v - 1, 2), Sqrt(v * (v - 1)))
        ELSE SurdScale(Frac(1, 4), Sqrt(v * (v - 1) * (v - 2) * (v - 3)))
    ELSE IF n = 5 THEN
        IF dv = 1 THEN SurdScale(Frac(10 * v * v + 5, 8), Sqrt(2 * v))
        ELSE IF dv = 3
        THEN SurdScale(Frac(5 * v - 5, 8), Sqrt(2 * v * (v - 1) * (v - 2)))
        ELSE SurdScale(Frac(1, 8),
                       Sqrt(2 * v * (v - 1) * (v - 2) * (v - 3) * (v - 4)))
    ELSE IF n = 6 THEN
        IF dv = 0
        THEN RatS(Frac(5 * (2 * v + 1) * (2 * v * v + 2 * v + 3), 8))
        ELSE IF dv = 2
        THEN SurdScale(Frac(15 * (v * v - v + 1), 8), Sqrt(v * (v - 1)))
        ELSE IF dv = 4
        THEN SurdScale(Frac(6 * v - 9, 8),
                       Sqrt(v * (v - 1) * (v - 2) * (v - 3)))
        ELSE SurdScale(Frac(1, 8),
                       Sqrt(v * (v - 1) * (v - 2) * (v - 3) * (v - 4) * (v - 5)))
    ELSE IF n = 7 THEN
        IF dv = 1
        THEN SurdScale(Frac(35 * (v * v + 2) * v, 16), Sqrt(2 * v))
        ELSE IF dv = 3
        THEN SurdScale(Frac(21 * (v * v - 2 * v + 2), 16),
                       Sqrt(2 * v * (v - 1) * (v - 2)))
        ELSE IF dv = 5
        THEN SurdScale(Frac(7 * (v - 2), 16),
                       Sqrt(2 * v * (v - 1) * (v - 2) * (v - 3) * (v - 4)))
        ELSE SurdScale(Frac(1, 16),
                       Sqrt(2 * v * (v - 1) * (v - 2) * (v - 3) *
                            (v - 4) * (v - 5) * (v - 6)))
    ELSE IF n = MaxOrder THEN
        IF dv = 0
        THEN RatS(Frac(35 * (2 * v * v * v * v + 4 * v * v * v + 10 * v * v
                             + 8 * v + 3), 16))
        ELSE IF dv = 2
        THEN SurdScale(Frac(7 * (2 * v - 1) * (v * v - v + 3), 4),
                       Sqrt(v * (v - 1)))
        ELSE IF dv = 4
        THEN SurdScale(Frac(7 * (2 * v * v - 6 * v + 7), 8),
                       Sqrt(v * (v - 1) * (v - 2) * (v - 3)))
        ELSE IF dv = 6
        THEN SurdScale(Frac(2 * v - 5, 4),
                       Sqrt(v * (v - 1) * (v - 2) * (v - 3) * (v - 4) * (v - 5)))
        ELSE SurdScale(Frac(1, 16),
                       Sqrt(v * (v - 1) * (v - 2) * (v - 3) *
                            (v - 4) * (v - 5) * (v - 6) * (v - 7)))
    ELSE ZeroS

\* MatElWeightGen(vmax): the values in the order the generator yields them
MatElWeightGen(vmax) ==
    LET \* one "for v in range(vmax + 1): yield f(v)" loop
        YieldLoop(f(_)) == [i \in 1..(vmax + 1) |-> f(i - 1)]
        P2(v) == v * (v - 1)
        P3(v) == v * (v - 1) * (v - 2)
        P4(v) == v * (v - 1) * (v - 2) * (v - 3)
        P5(v) == v * (v - 1) * (v - 2) * (v - 3) * (v - 4)
        P6(v) == v * (v - 1) * (v - 2) * (v - 3) * (v - 4) * (v - 5)
        P7(v) == v * (v - 1) * (v - 2) * (v - 3) * (v - 4) * (v - 5) * (v - 6)
        P8(v) == v * (v - 1) * (v - 2) * (v - 3) * (v - 4) * (v - 5) * (v - 6)
                 * (v - 7)
        g00(v) == RatS(QInt(1))
        g11(v) == SqrtQ(Frac(v, 2))
        g20(v) == RatS(Frac(2 * v + 1, 2))
        g22(v) == SurdScale(Frac(1, 2), Sqrt(P2(v)))
        g31(v) == SurdScale(Frac(3, 4),
                            SurdMul(Sqrt(2), SurdMul(RatS(QInt(v)), Sqrt(v))))
        g33(v) == SurdScale(Frac(1, 4), Sqrt(2 * P3(v)))
        g40(v) == RatS(Frac(6 * v * v + 6 * v + 3, 4))
        g42(v) == SurdScale(Frac(2 * v - 1, 2), Sqrt(P2(v)))
        g44(v) == SurdScale(Frac(1, 4), Sqrt(P4(v)))
        g51(v) == SurdScale(Frac(10 * v * v + 5, 8), Sqrt(2 * v))
        g53(v) == SurdScale(Frac(5 * v - 5, 8), Sqrt(2 * P3(v)))
        g55(v) == SurdScale(Frac(1, 8), Sqrt(2 * P5(v)))
        g60(v) == RatS(Frac(5 * (2 * v + 1) * (2 * v * v + 2 * v + 3), 8))
        g62(v) == SurdScale(Frac(15 * (v * v - v + 1), 8), Sqrt(P2(v)))
        g64(v) == SurdScale(Frac(6 * v - 9, 8), Sqrt(P4(v)))
        g66(v) == SurdScale(Frac(1, 8), Sqrt(P6(v)))
        g71(v) == SurdScale(Frac(35 * (v * v + 2) * v, 16), Sqrt(2 * v))
        g73(v) == SurdScale(Frac(21 * (v * v - 2 * v + 2), 16), Sqrt(2 * P3(v)))
        g75(v) == SurdScale(Frac(7 * (v - 2), 16), Sqrt(2 * P5(v)))
        g77(v) == SurdScale(Frac(1, 16), Sqrt(2 * P7(v)))
        g80(v) == RatS(Frac(35 * (2 * v * v * v * v + 4 * v * v * v
                                  + 10 * v * v + 8 * v + 3), 16))
        g82(v) == SurdScale(Frac(7 * (2 * v - 1) * (v * v - v + 3), 4),
                            Sqrt(P2(v)))
        g84(v) == SurdScale(Frac(7 * (2 * v * v - 6 * v + 7), 8), Sqrt(P4(v)))
        g86(v) == SurdScale(Frac(2 * v - 5, 4), Sqrt(P6(v)))
        g88(v) == SurdScale(Frac(1, 16), Sqrt(P8(v)))
    IN  YieldLoop(g00) \o YieldLoop(g11)
        \o YieldLoop(g20) \o YieldLoop(g22)
        \o YieldLoop(g31) \o YieldLoop(g33)
        \o YieldLoop(g40) \o YieldLoop(g42) \o YieldLoop(g44)
        \o YieldLoop(g51) \o YieldLoop(g53) \o YieldLoop(g55)
        \o YieldLoop(g60) \o YieldLoop(g62) \o YieldLoop(g64)
        \o YieldLoop(g66)
        \o YieldLoop(g71) \o YieldLoop(g73) \o YieldLoop(g75)
        \o YieldLoop(g77)
        \o YieldLoop(g80) \o YieldLoop(g82) \o YieldLoop(g84)
        \o YieldLoop(g86) \o YieldLoop(g88)

\* range(lo, hi, 2) as a sequence
RECURSIVE RangeStep2(_, _)
RangeStep2(lo, hi) == IF lo >= hi THEN <<>> ELSE <<lo>> \o RangeStep2(lo + 2, hi)

\* range(lo, hi) as a sequence
RangeSeq(lo, hi) == [i \in 1..(IF hi > lo THEN hi - lo ELSE 0) |-> lo + i - 1]

RECURSIVE Flatten(_)
Flatten(ss) == IF ss = <<>> THEN <<>> ELSE Head(ss) \o Flatten(Tail(ss))

\* the keys with every dv in range(i + 1), whatever its parity
DictKeysAnyParity(vmax, n) ==
    Flatten([a \in 1..(n + 1) |->
        LET i == a - 1
            dvs == RangeSeq(0, i + 1)
        IN  Flatten([b \in 1..Len(dvs) |->
                [c \in 1..(vmax + 1) |-> <<i, dvs[b], c - 1>>]])])

\* the keys with the loop over v outside the loop over dv
DictKeysVFirst(vmax, n) ==
    Flatten([a \in 1..(n + 1) |->
        LET i == a - 1
            dvs == RangeStep2(i % 2, i + 1)
        IN  Flatten([c \in 1..(vmax + 1) |->
                [b \in 1..Len(dvs) |-> <<i, dvs[b], c - 1>>]])])

\* the keys (i, dv, v) in the order the three loops of MatElWeightDict
\* visit them
DictKeys(vmax, n) ==
    Flatten([a \in 1..(n + 1) |->
        LET i == a - 1
            dvs == RangeStep2(i % 2, i + 1)
        IN  Flatten([b \in 1..Len(dvs) |->
                [c \in 1..(vmax + 1) |-> <<i, dvs[b], c - 1>>]])])

\* MatElWeightDict(vmax, n): key j takes the j-th next(gen); next(gen) on
\* the exhausted generator raises StopIteration out of the function
MatElWeightDict(vmax, n) ==
    LET keys == DictKeys(vmax, n)
        gen == MatElWeightGen(vmax)
    IN  IF Len(keys) > Len(gen)
        THEN [raised |-> "StopIteration", dict |-> <<>>]
        ELSE [raised |-> None,
              dict |-> [k \in Range(keys) |->
                          gen[CHOOSE j \in 1..Len(keys) : keys[j] = k]]]

\* Weights_dict.get(key): <<value>>, or <<>> for the None of an absent key
DictGet(dict, key) == IF key \in DOMAIN dict THEN <<dict[key]>> ELSE <<>>

\* ------------------------------------------- sums of surds (matrix entries)
\* {<<r, c>>}: the sum of c * sqrt(r), one pair for each square-free r
\* whose coefficient c is not 0; {} is 0.
NumZero == {}
NumOfSurd(x) == IF x.c[1] = 0 THEN {} ELSE {<<x.r, x.c>>}
NumOfQ(q) == NumOfSurd(RatS(q))
NumCoef(a, r) == IF \E t \in a : t[1] = r
                 THEN (CHOOSE t \in a : t[1] = r)[2] ELSE QInt(0)
NumRads(a) == {t[1] : t \in a}
NumAdd(a, b) ==
    {t \in {<<r, QAdd(NumCoef(a, r), NumCoef(b, r))>> :
                r \in NumRads(a) \cup NumRads(b)} : t[2][1] # 0}
NumScale(q, a) == IF q[1] = 0 THEN {} ELSE {<<t[1], QMul(q, t[2])>> : t \in a}
NumSub(a, b) == NumAdd(a, NumScale(QInt(-1), b))

RECURSIVE NumSum(_)
NumSum(s) == IF s = <<>> THEN NumZero ELSE NumAdd(Head(s), NumSum(Tail(s)))

RECURSIVE SetToSeq(_)
SetToSeq(S) == IF S = {} THEN <<>>
               ELSE LET x == CHOOSE y \in S : TRUE IN <<x>> \o SetToSeq(S \ {x})

NumMul(a, b) ==
    LET pairs == SetToSeq(a \X b)
    IN  NumSum([i \in 1..Len(pairs) |->
                 NumOfSurd(SurdMul([c |-> pairs[i][1][2], r |-> pairs[i][1][1]],
                                   [c |-> pairs[i][2][2], r |-> pairs[i][2][1]]))])

\* ------------------------------------------------------------ fill_wmat
Max(S) == CHOOSE x \in S : \A y \in S : y <= x

RECURSIVE SurdProd(_)
SurdProd(s) == IF s = <<>> THEN RatS(QInt(1))
               ELSE SurdMul(Head(s), SurdProd(Tail(s)))

\* all(p): every looked-up weight is there and is not 0
AllTrue(p) == \A l \in 1..Len(p) : p[l] # <<>> /\ p[l][1] # ZeroS

\* the loop over the terms with the key built from the smaller quantum
\* number of the pair
PairSumSmallerV(Weights_dict, anh, states, i, j) ==
    LET Nv == Len(states[1].v)
        contrib(k) ==
            LET p == [l \in 1..Nv |->
                        DictGet(Weights_dict,
                                <<anh[k].ik[l],
                                  Abs(states[i].v[l] - states[j].v[l]),
                                  -Max({-states[i].v[l], -states[j].v[l]})>>)]
            IN  IF AllTrue(p)
                THEN NumOfSurd(SurdScale(anh[k].k,
                                        SurdProd([l \in 1..Nv |-> p[l][1]])))
                ELSE NumZero
    IN  NumSum([k \in 1..Len(anh) |-> contrib(k)])

\* the inner loop over the terms for one pair (i, j): the sum Wmat[i, j]
\* has accumulated when the loop ends
PairSum(Weights_dict, anh, states, i, j) ==
    LET Nv == Len(states[1].v)
        contrib(k) ==
            LET p == [l \in 1..Nv |->
                        DictGet(Weights_dict,
                                <<anh[k].ik[l],
                                  Abs(states[i].v[l] - states[j].v[l]),
                                  Max({states[i].v[l], states[j].v[l]})>>)]
            IN  IF AllTrue(p)
                THEN NumOfSurd(SurdScale(anh[k].k,
                                        SurdProd([l \in 1..Nv |-> p[l][1]])))
                ELSE NumZero
    IN  NumSum([k \in 1..Len(anh) |-> contrib(k)])

\* the upper triangle left as the loops fill it, the lower one still zero
MirrorSkipped(U) == U

\* Wmat[i_lower] = Wmat.T[i_lower]
MirrorLower(U) ==
    [i \in 1..Len(U) |-> [j \in 1..Len(U) |-> IF i > j THEN U[j][i] ELSE U[i][j]]]

\* fill_wmat(anh_coefs, zero_states), for a basis and a term list that are
\* not empty and have one number of modes
fill_wmat(anh, states) ==
    LET N == Len(states)
        Nv == Len(states[1].v)
        nmax == Max({anh[k].ik[l] : k \in 1..Len(anh), l \in 1..Nv})
        vmax == Max({states[i].v[l] : i \in 1..N, l \in 1..Nv})
        built == MatElWeightDict(vmax, nmax)
        upper == [i \in 1..N |-> [j \in 1..N |->
                    IF j >= i THEN PairSum(built.dict, anh, states, i, j)
                    ELSE NumZero]]
    IN  IF built.raised # None
        THEN [raised |-> built.raised, Wmat |-> <<>>]
        ELSE [raised |-> None, Wmat |-> MirrorLower(upper)]

\* ------------------------------------------ add_zero_approx, shift_freqs
\* Hmat = Wmat.copy(); Hmat.flat[::N + 1] += zero_states['E']
add_zero_approx(W, states) ==
    [i \in 1..Len(W) |-> [j \in 1..Len(W) |->
        IF i = j THEN NumAdd(W[i][j], NumOfQ(states[i].E)) ELSE W[i][j]]]

\* np.dot(np.array(zero_states[labels]) + 0.5, shifts)
StatesShifts(sh, states) ==
    [i \in 1..Len(states) |->
        QSum([l \in 1..Len(sh) |->
                QMul(QAdd(QInt(states[i].v[l]), Frac(1, 2)), sh[l])])]

\* the rows put back in order of (E, v1, ..., vM) after the energies moved
ShiftEnergiesResorted(states, ss) ==
    Reindex(SortValues([i \in 1..Len(states) |->
                           [states[i] EXCEPT !.E = QAdd(@, ss[i])]]))

\* zero_states['E'] += states_shifts
ShiftEnergies(states, ss) ==
    [i \in 1..Len(states) |-> [states[i] EXCEPT !.E = QAdd(@, ss[i])]]

\* the diagonal moved the same way as the energies
ShiftDiagonalAdded(W, ss) ==
    [i \in 1..Len(W) |-> [j \in 1..Len(W) |->
        IF i = j THEN NumAdd(W[i][j], NumOfQ(ss[i])) ELSE W[i][j]]]

\* Wmat.flat[::N + 1] -= states_shifts
ShiftDiagonal(W, ss) ==
    [i \in 1..Len(W) |-> [j \in 1..Len(W) |->
        IF i = j THEN NumSub(W[i][j], NumOfQ(ss[i])) ELSE W[i][j]]]

\* shift_freqs(shifts, zero_states, Wmat): both arguments changed in place
shift_freqs(sh, states, W) ==
    LET ss == StatesShifts(sh, states)
    IN  [states |-> ShiftEnergies(states, ss), Wmat |-> ShiftDiagonal(W, ss)]

\* ------------------------------------------------------------ diag_hmat
\* Matrices handed to diag_hmat have rational entries; an eigenvector is
\* kept as a direction of integers x, the normalised vector being
\* x / |x|, so that its squared components are the rationals x[i]^2 / |x|^2.
MaxEig == 3

IntDot(x, y) == LET RECURSIVE S(_)
                    S(i) == IF i = 0 THEN 0 ELSE x[i] * y[i] + S(i - 1)
                IN  S(Len(x))

Perms(N) == {p \in [1..N -> 1..N] : \A a, b \in 1..N : p[a] = p[b] => a = b}

\* orthogonal directions, none with two equal largest components in a row
\* of the eigenvector matrix
BaseFrames(N) ==
    IF N = 1 THEN {<< <<1>> >>}
    ELSE IF N = 2 THEN {<< <<1, 0>>, <<0, 1>> >>, << <<1, 2>>, <<2, -1>> >>}
    ELSE IF N = 3
    THEN {<< <<1, 0, 0>>, <<0, 1, 0>>, <<0, 0, 1>> >>,
          << <<1, 2, 0>>, <<2, -1, 0>>, <<0, 0, 1>> >>,
          << <<2, 3, 6>>, <<3, -6, 2>>, <<6, 2, -3>> >>,
          << <<2, -52, -47>>, <<5, 2, -2>>, <<6, -7, 8>> >>,
          << <<37, 46, 22>>, <<38, -43, 26>>, <<34, -2, -53>> >>}
    ELSE {}

\* the eigenvector matrices of the matrices given to diag_hmat: the columns
\* of a base frame in any order
DiagFrames(N) ==
    {[k \in 1..N |-> f[p[k]]] : f \in BaseFrames(N), p \in Perms(N)}

\* the sizes of the matrices given to diag_hmat
DiagSizes == {2, 3}

\* a frame that leaves some basis state out of some eigenvector
HasZero(f) == \E k, i \in 1..Len(f) : f[k][i] = 0

\* the eigenvector matrices eigh may return, for each size: the columns of
\* a base frame in any order and, for the frames that mix fewer than all
\* the states, the basis states in any order
EighFrameTable ==
    [N \in DiagSizes \cup {1} |->
        DiagFrames(N)
        \cup {[k \in 1..N |-> [i \in 1..N |-> f[k][p[i]]]] :
                 f \in {g \in DiagFrames(N) : HasZero(g)}, p \in Perms(N)}]

EighFrames(N) == IF N \in DOMAIN EighFrameTable THEN EighFrameTable[N] ELSE {}

\* the spectra tried: N different integers of 0..MaxEig, ascending
AscendingValues(N) ==
    {[k \in 1..N |-> QInt(c[k])] :
        c \in {d \in [1..N -> 0..MaxEig] : \A k \in 1..(N - 1) : d[k] < d[k + 1]}}

\* the matrix sum_k vals[k] * x_k x_k^T / |x_k|^2
SpectralMatrix(frame, vals) ==
    [i \in 1..Len(frame) |-> [j \in 1..Len(frame) |->
        QSum([k \in 1..Len(frame) |->
                QMul(vals[k], Frac(frame[k][i] * frame[k][j],
                                   IntDot(frame[k], frame[k])))])]]

\* H x = val x
IsEigenpair(H, val, x) ==
    \A i \in 1..Len(H) :
        QSum([j \in 1..Len(H) |-> QMul(H[i][j], QInt(x[j]))])
            = QMul(val, QInt(x[i]))

\* the number val with (H x)[i] = val * x[i] at the first component of x
\* that is not 0
EigenvalueOf(H, x) ==
    LET i == CHOOSE a \in 1..Len(x) :
                 x[a] # 0 /\ \A b \in 1..(a - 1) : x[b] = 0
    IN  QDiv(QSum([j \in 1..Len(H) |-> QMul(H[i][j], QInt(x[j]))]), QInt(x[i]))

\* the eigenvalues of the columns of a frame
FrameValues(H, frame) == [k \in 1..Len(H) |-> EigenvalueOf(H, frame[k])]

\* np.linalg.eigh(Hmat): the eigenvalues in ascending order and, column by
\* column, their eigenvectors.  The result is found among the frames above
\* (none when no frame diagonalises H); an eigenvalue that occurs twice
\* leaves the choice of its eigenvectors open, and every frame that fits
\* is a result.
Eigh(H) ==
    {[values |-> FrameValues(H, f), vectors |-> f] :
        f \in {g \in EighFrames(Len(H)) :
                 /\ \A k \in 1..Len(H) :
                       IsEigenpair(H, EigenvalueOf(H, g[k]), g[k])
                 /\ \A k \in 1..(Len(H) - 1) :
                       QLe(EigenvalueOf(H, g[k]), EigenvalueOf(H, g[k + 1]))}}

\* np.square(np.absolute(Eigh_vectors)): row i, column k
SquaredVectors(vectors) ==
    [i \in 1..Len(vectors) |-> [k \in 1..Len(vectors) |->
        Frac(vectors[k][i] * vectors[k][i], IntDot(vectors[k], vectors[k]))]]

\* argmax of one row: the 0-based position of the first largest entry
ArgMax(row) ==
    (CHOOSE k \in 1..Len(row) :
        /\ \A j \in 1..Len(row) : QLe(row[j], row[k])
        /\ \A j \in 1..(k - 1) : QLt(row[j], row[k])) - 1

\* .argmax(axis=1): for each row i the column of its largest entry
ArgMaxAxis1(P) == [i \in 1..Len(P) |-> ArgMax(P[i])]

\* vib_states.index = new_index
SetIndex(rows, labels) ==
    [i \in 1..Len(rows) |-> [rows[i] EXCEPT !.idx = labels[i]]]

\* the orders sort_index may leave the rows in: as they are when the labels
\* already ascend, else any order in which the labels ascend (the default
\* sort is not stable, rows of one label may come out either way)
SortIndexOrders(labels) ==
    IF \A a \in 1..(Len(labels) - 1) : labels[a] <= labels[a + 1]
    THEN {[a \in 1..Len(labels) |-> a]}
    ELSE {p \in Perms(Len(labels)) :
            \A a \in 1..(Len(labels) - 1) : labels[p[a]] <= labels[p[a + 1]]}

\* the sort with a later row of a label taking the place of every earlier
\* row of that label
SortIndexLastWins(rows, order) ==
    [a \in 1..Len(rows) |->
        rows[CHOOSE i \in 1..Len(rows) :
                /\ rows[i].idx = rows[order[a]].idx
                /\ \A j \in 1..Len(rows) :
                      rows[j].idx = rows[order[a]].idx => j <= i]]

\* vib_states.sort_index(inplace=True), the rows coming out in order
SortIndex(rows, order) == [a \in 1..Len(rows) |-> rows[order[a]]]

\* each row given the eigenvalue of the column its label names
AssignByLabel(rows, values) ==
    [a \in 1..Len(rows) |-> [rows[a] EXCEPT !.E = values[rows[a].idx + 1]]]

\* vib_states['E'] = Eigh_values: row by row, by position
AssignEnergies(rows, values) ==
    [a \in 1..Len(rows) |-> [rows[a] EXCEPT !.E = values[a]]]

\* E0 as given, or vib_states.iloc[0]['E']
ReferenceEnergy(E0_, rows) == IF E0_ = <<>> THEN rows[1].E ELSE E0_[1]

\* vib_states['E'] -= E0
SubtractE0(rows, ref) ==
    [a \in 1..Len(rows) |-> [rows[a] EXCEPT !.E = QSub(@, ref)]]

\* what diag_hmat(Hmat, zero_states, E0) leaves for one order of the
\* sorted rows.  vib_states is zero_states itself (no copy is made): the
\* table returned is also what the caller's zero_states holds afterwards.
DiagResult(eig, labels, states, E0_, order) ==
    LET sorted == SortIndex(SetIndex(states, labels), order)
        filled == Reindex(AssignEnergies(sorted, eig.values))
        ref == ReferenceEnergy(E0_, filled)
    IN  [vib_states |-> SubtractE0(filled, ref),
         zero_states |-> SubtractE0(filled, ref),
         Eigh_values |-> eig.values,
         Eigh_vectors |-> eig.vectors,
         new_index |-> labels]

\* the lines of diag_hmat after the call of eigh, for the results eigs it
\* may have given: one outcome for each of them and each order sort_index
\* may leave the rows in
DiagAfterEigh(eigs, states, E0_) ==
    UNION {UNION {{DiagResult(eig, labels, states, E0_, order) :
                      order \in SortIndexOrders(labels)} :
                  labels \in {ArgMaxAxis1(SquaredVectors(eig.vectors))}} :
           eig \in eigs}

\* diag_hmat(Hmat, zero_states, E0): the results it may give
diag_hmat(H, states, E0_) == DiagAfterEigh(Eigh(H), states, E0_)

\* ---------------------------------------------------------- RSPT_series
\* vectors of sums of surds, one entry for each basis state
VecAdd(x, y) == [i \in 1..Len(x) |-> NumAdd(x[i], y[i])]
VecSub(x, y) == [i \in 1..Len(x) |-> NumSub(x[i], y[i])]
\* x * c for a number c
VecTimes(x, c) == [i \in 1..Len(x) |-> NumMul(x[i], c)]
\* E_d * x, entry by entry
VecScale(Ed, x) == [i \in 1..Len(x) |-> NumScale(Ed[i], x[i])]
\* np.dot(x, y)
VecDot(x, y) == NumSum([i \in 1..Len(x) |-> NumMul(x[i], y[i])])
\* np.dot(x, Wmat)
VecMat(x, W) ==
    [j \in 1..Len(x) |-> NumSum([i \in 1..Len(x) |-> NumMul(x[i], W[i][j])])]

\* E_d = 1 / (E[q] - E); E_d[q] = 0, for a q whose energy no other state has
EnergyDenominators(q0, states) ==
    [i \in 1..Len(states) |->
        IF i = q0 + 1 THEN QInt(0)
        ELSE QDiv(QInt(1), QSub(states[q0 + 1].E, states[i].E))]

\* as SeriesStep, the accumulator gaining psi times the latest coefficient
SeriesStepLatestE(i, W, Ed, row, st) ==
    LET S == VecAdd(st.S, VecTimes(st.psi, st.e[i]))
        psi == VecScale(Ed, VecSub(VecMat(st.psi, W), S))
    IN  [psi |-> psi, S |-> S, e |-> Append(st.e, VecDot(psi, row))]

\* one turn of the loop "for i in range(2, Nmax)"
SeriesStep(i, W, Ed, row, st) ==
    LET S == VecAdd(st.S, VecTimes(st.psi, st.e[i - 1]))
        psi == VecScale(Ed, VecSub(VecMat(st.psi, W), S))
    IN  [psi |-> psi, S |-> S, e |-> Append(st.e, VecDot(psi, row))]

RECURSIVE SeriesLoop(_, _, _, _, _, _)
SeriesLoop(i, Nmax_, W, Ed, row, st) ==
    IF i >= Nmax_ THEN st.e
    ELSE CHOOSE r \in {SeriesLoop(i + 1, Nmax_, W, Ed, row, nx) :
                          nx \in {SeriesStep(i, W, Ed, row, st)}} : TRUE

\* RSPT_series(q, zero_states, Wmat, Nmax) for Nmax >= 2: the list e
RSPT_series(q0, states, W, Nmax_) ==
    LET start(Ed, row, psi) ==
            SeriesLoop(2, Nmax_, W, Ed, row,
                       [psi |-> psi,
                        S |-> [i \in 1..Len(W) |-> NumZero],
                        e |-> <<W[q0 + 1][q0 + 1], VecDot(psi, row)>>])
    IN  CHOOSE r \in {start(Ed, W[q0 + 1], psi) :
                        Ed \in {EnergyDenominators(q0, states)},
                        psi \in {VecScale(EnergyDenominators(q0, states),
                                          W[q0 + 1])}} : TRUE

\* ------------------------------------------------------------- actions
FreqVectors == UNION {[1..m -> 1..MaxFreq] : m \in 1..MaxModes}

NoBasis == /\ freqs = <<>>
           /\ Emax = QInt(0)
           /\ generated = <<>>

NoMatrix == /\ anh_coefs = <<>>
            /\ Wmat = <<>>
            /\ Hmat = <<>>
            /\ Hprev = <<>>
            /\ shifts = <<>>
            /\ nshift = 0

NoTable == /\ tab_vmax = 0
           /\ tab_n = 0
           /\ Harm_weight_dict = <<>>
           /\ query = <<>>
           /\ closed_form = ZeroS
           /\ looked_up = <<>>

NoDiag == /\ diag_Hmat = <<>>
          /\ E0 = <<>>
          /\ basis_arg = <<>>
          /\ Eigh_values = <<>>
          /\ Eigh_vectors = <<>>
          /\ new_index = <<>>
          /\ vib_states = <<>>

NoSeries == /\ series_q = 0
            /\ series_Nmax = 0
            /\ series_e = <<>>

Init ==
    /\ pc = "init"
    /\ freqs \in FreqVectors
    /\ Emax \in {QInt(e) : e \in 0..MaxE}
    /\ generated = <<>>
    /\ zero_states = <<>>
    /\ raised = None
    /\ NoMatrix
    /\ NoTable
    /\ NoDiag
    /\ NoSeries

ZeroApproximation ==
    /\ pc = "init"
    /\ LET r == zero_approximation(Emax, freqs)
       IN  /\ generated' = r.gen
           /\ zero_states' = r.states
    /\ pc' = "basis"
    /\ UNCHANGED <<freqs, Emax, raised, matrixVars, tableVars, diagVars,
                   seriesVars>>

\* the rows of odd v3 kept and numbered again; a basis of fewer than three
\* modes has no column v3 and the selection raises
SelectOddV3 ==
    /\ pc = "basis"
    /\ IF Len(freqs) >= 3
       THEN /\ zero_states' = OddV3Rows(zero_states)
            /\ raised' = None
            /\ pc' = "selected"
       ELSE /\ zero_states' = zero_states
            /\ raised' = "KeyError"
            /\ pc' = "raised"
    /\ UNCHANGED <<basisVars, matrixVars, tableVars, diagVars, seriesVars>>

\* the coupling orders a term may name: 0..MaxPow, and one above the
\* highest order the closed forms cover
Powers == 0..MaxPow \cup {MaxOrder + 1}
Terms(Nv, pows, coefs) == [ik : [1..Nv -> pows], k : coefs]

\* the matrices are assembled for every basis of one or two modes, and for
\* the selected rows of a basis of more modes
FillModes == {1, 2}

\* the orders in the first three modes that the terms of a basis of three
\* modes or more name; the later modes have order 0
SelectedPowers == {<<1, 1, 0>>, <<2, 0, 2>>, <<2, 2, 0>>, <<1, 1, 2>>}

SelectedTerm(Nv, p, c) ==
    [ik |-> [l \in 1..Nv |-> IF l <= 3 THEN p[l] ELSE 0], k |-> c]

\* for three modes or more: one term of coefficient 2, or a term of
\* coefficient 2 followed by a different term of coefficient -1
SelectedTermLists(Nv) ==
    IF Nv < 3 THEN {}
    ELSE {<<SelectedTerm(Nv, p, QInt(2))>> : p \in SelectedPowers}
         \cup {<<SelectedTerm(Nv, pr[1], QInt(2)),
                  SelectedTerm(Nv, pr[2], QInt(-1))>> :
                  pr \in {x \in SelectedPowers \X SelectedPowers : x[1] # x[2]}}

\* the term lists tried for one or two modes: one term, or a term of
\* coefficient -1 followed by a term of coefficient 2
TermLists(Nv) ==
    IF Nv \in FillModes
    THEN {<<t>> : t \in Terms(Nv, Powers, {QInt(-1), QInt(2)})}
         \cup {<<t, u>> : t \in Terms(Nv, Powers, {QInt(-1)}),
                          u \in Terms(Nv, Powers, {QInt(2)})}
    ELSE SelectedTermLists(Nv)

FillWmat(lists) ==
    /\ \/ pc = "selected"
       \/ pc = "basis" /\ Len(freqs) \in FillModes
    /\ Len(zero_states) >= 1
    /\ \E anh \in lists :
          LET r == fill_wmat(anh, zero_states)
          IN  /\ anh_coefs' = anh
              /\ raised' = r.raised
              /\ Wmat' = r.Wmat
              /\ pc' = IF r.raised = None THEN "wmat" ELSE "raised"
    /\ UNCHANGED <<basisVars, zero_states, Hmat, Hprev, shifts, nshift,
                   tableVars, diagVars, seriesVars>>

Next ==
    \/ ZeroApproximation
    \/ SelectOddV3
    \/ FillWmat(TermLists(Len(freqs)))

Spec == Init /\ [][Next]_vars

\* ------------------------------------------------ the frequency shift
\* the matrix comes from one term of coefficient 2 whose order is the same
\* in every mode
ShiftTermLists(Nv) ==
    {<<[ik |-> [l \in 1..Nv |-> n], k |-> QInt(2)]>> : n \in 0..MaxPow}

\* the shift vectors tried: every mode moved by -1 or by 1/2, or no mode
\* moved at all
ShiftVectors(Nv) ==
    [1..Nv -> {QInt(-1), Frac(1, 2)}] \cup {[l \in 1..Nv |-> QInt(0)]}

\* Hmat = add_zero_approx(Wmat, zero_states), before the first shift
AddZeroApprox ==
    /\ pc = "wmat"
    /\ Hmat' = <<nshift, add_zero_approx(Wmat, zero_states)>>
    /\ Hprev' = Hmat
    /\ pc' = "ham"
    /\ UNCHANGED <<raised, zero_states, basisVars, anh_coefs, Wmat, shifts,
                   nshift, tableVars, diagVars, seriesVars>>

ShiftFreqs ==
    /\ pc = "ham"
    /\ nshift < MaxShiftCalls
    /\ \E sh \in ShiftVectors(Len(freqs)) :
          LET r == shift_freqs(sh, zero_states, Wmat)
          IN  /\ shifts' = sh
              /\ zero_states' = r.states
              /\ Wmat' = r.Wmat
    /\ nshift' = nshift + 1
    /\ UNCHANGED <<pc, raised, basisVars, anh_coefs, Hmat, Hprev, tableVars,
                   diagVars, seriesVars>>

\* Hmat = add_zero_approx(Wmat, zero_states), after the shifts
AddZeroApproxAgain ==
    /\ pc = "ham"
    /\ Hmat' = <<nshift, add_zero_approx(Wmat, zero_states)>>
    /\ Hprev' = Hmat
    /\ pc' = "done"
    /\ UNCHANGED <<raised, zero_states, basisVars, anh_coefs, Wmat, shifts,
                   nshift, tableVars, diagVars, seriesVars>>

NextShift ==
    \/ ZeroApproximation
    \/ FillWmat(ShiftTermLists(Len(freqs)))
    \/ AddZeroApprox
    \/ ShiftFreqs
    \/ AddZeroApproxAgain

SpecShift == Init /\ [][NextShift]_vars

\* ------------------------------------------------- the weight table alone
InitWeights ==
    /\ pc = "weights"
    /\ tab_vmax \in 0..MaxV
    /\ tab_n \in 0..(MaxOrder + 1)
    /\ Harm_weight_dict = <<>>
    /\ query = <<>>
    /\ closed_form = ZeroS
    /\ looked_up = <<>>
    /\ zero_states = <<>>
    /\ raised = None
    /\ NoBasis
    /\ NoMatrix
    /\ NoDiag
    /\ NoSeries

\* Harm_weight_dict = MatElWeightDict(vmax, n)
BuildTable ==
    /\ pc = "weights"
    /\ LET r == MatElWeightDict(tab_vmax, tab_n)
       IN  /\ Harm_weight_dict' = r.dict
           /\ raised' = r.raised
           /\ pc' = IF r.raised = None THEN "table" ELSE "raised"
    /\ UNCHANGED <<tab_vmax, tab_n, query, closed_form, looked_up, zero_states,
                   basisVars, matrixVars, diagVars, seriesVars>>

\* one weight asked of both sources: MatElWeight(n, dv, v) and
\* Harm_weight_dict.get((n, dv, v))
AskWeight ==
    /\ pc = "table"
    /\ \E n \in 0..(MaxOrder + 1), dv \in 0..(MaxOrder + 1), v \in 0..tab_vmax :
          /\ query' = <<n, dv, v>>
          /\ closed_form' = MatElWeight(n, dv, v)
          /\ looked_up' = DictGet(Harm_weight_dict, <<n, dv, v>>)
    /\ pc' = "asked"
    /\ UNCHANGED <<tab_vmax, tab_n, Harm_weight_dict, raised, zero_states,
                   basisVars, matrixVars, diagVars, seriesVars>>

NextWeights == BuildTable \/ AskWeight

SpecWeights == InitWeights /\ [][NextWeights]_vars

\* ------------------------------------------------- the diagonalisation
\* E0 left out, or given
ReferenceEnergies == {<<>>, <<QInt(0)>>, <<Frac(1, 2)>>, <<Frac(3, 2)>>}

\* every entry of the matrix is a rational number
IsRationalMatrix(H) ==
    \A i, j \in 1..Len(H) : NumRads(H[i][j]) \subseteq {1}

\* the entries as rationals
RationalMatrix(H) ==
    [i \in 1..Len(H) |-> [j \in 1..Len(H) |-> NumCoef(H[i][j], 1)]]

\* the variables a call diag_hmat(H, zero_states, ref) sets when results
\* holds what it may give; zero_states is changed with vib_states, which is
\* the same table
DiagSet(H, ref, results) ==
    /\ \E r \in results :
          /\ diag_Hmat' = H
          /\ E0' = ref
          /\ basis_arg' = zero_states
          /\ Eigh_values' = r.Eigh_values
          /\ Eigh_vectors' = r.Eigh_vectors
          /\ new_index' = r.new_index
          /\ vib_states' = r.vib_states
          /\ zero_states' = r.zero_states
    /\ pc' = "diagonal"
    /\ UNCHANGED <<raised, basisVars, matrixVars, tableVars, seriesVars>>

\* vib_states, _ = diag_hmat(Hmat, zero_states, E0) for the Hmat that
\* add_zero_approx returned, when its entries are rational and a frame
\* diagonalises it
DiagHmat ==
    /\ pc = "ham"
    /\ IsRationalMatrix(Hmat[2])
    /\ \E ref \in ReferenceEnergies :
          \E H \in {RationalMatrix(Hmat[2])} :
             DiagSet(H, ref, diag_hmat(H, zero_states, ref))

NextDiag ==
    \/ ZeroApproximation
    \/ SelectOddV3
    \/ FillWmat(SelectedTermLists(Len(freqs)))
    \/ AddZeroApprox
    \/ DiagHmat

SpecDiag == Init /\ [][NextDiag]_vars

\* ------------------------------ the diagonalisation of a given matrix
\* diag_hmat called with a symmetric matrix built from its spectrum and
\* eigenvectors, once for each reference energy (eigh gives the same for
\* all of them)
DiagHmatGiven ==
    /\ pc = "basis"
    /\ Len(zero_states) \in DiagSizes
    /\ \E frame \in DiagFrames(Len(zero_states)),
          values \in AscendingValues(Len(zero_states)) :
          \E H \in {SpectralMatrix(frame, values)} :
             \E eigs \in {Eigh(H)} :
                \E ref \in ReferenceEnergies :
                   DiagSet(H, ref, DiagAfterEigh(eigs, zero_states, ref))

NextDiagGiven ==
    \/ ZeroApproximation
    \/ DiagHmatGiven

SpecDiagGiven == Init /\ [][NextDiagGiven]_vars

\* ------------------------------------------------------ the RSPT series
MaxNmax == 4

\* the term lists the series is computed for: one term of coefficient 2,
\* or a term of order 1 and coefficient -1 followed by one of order 2 and
\* coefficient 2
SeriesTermLists(Nv) ==
    ShiftTermLists(Nv)
    \cup {<<[ik |-> [l \in 1..Nv |-> 1], k |-> QInt(-1)],
            [ik |-> [l \in 1..Nv |-> 2], k |-> QInt(2)]>>}

\* the states q the series may be asked for: those whose zero-order energy
\* no other state shares
Isolated(states) ==
    {q0 \in 0..(Len(states) - 1) :
        \A i \in 1..Len(states) : i # q0 + 1 => states[i].E # states[q0 + 1].E}

\* e = RSPT_series(q, zero_states, Wmat, Nmax)
RSPTSeries ==
    /\ pc = "wmat"
    /\ \E q0 \in Isolated(zero_states), n \in 2..MaxNmax :
          /\ series_q' = q0
          /\ series_Nmax' = n
          /\ series_e' = RSPT_series(q0, zero_states, Wmat, n)
    /\ pc' = "series"
    /\ UNCHANGED <<raised, zero_states, basisVars, matrixVars, tableVars,
                   diagVars>>

NextSeries ==
    \/ ZeroApproximation
    \/ FillWmat(SeriesTermLists(Len(freqs)))
    \/ RSPTSeries

SpecSeries == Init /\ [][NextSeries]_vars

\* ------------------------------------------------------- claims C1, C2
\* sum_i freq_i * (v_i + 1/2)
ZeroOrderEnergy(freqs_, t) ==
    QSum([i \in 1..Len(freqs_) |->
            QMul(QInt(freqs_[i]), Frac(2 * t[i] + 1, 2))])

\* the tuples of non-negative integers with zero-order energy <= Emax
\* (every frequency is >= 1, so no quantum number exceeds Emax)
TuplesBelow(freqs_, Emax_) ==
    {t \in [1..Len(freqs_) -> 0..MaxE] : QLe(ZeroOrderEnergy(freqs_, t), Emax_)}

\* C1: the enumerator yields exactly the tuples with zero-order energy
\* <= Emax, each once, each paired with that energy, and nothing when the
\* zero-point energy exceeds Emax.
C1_EnumeratesExactly ==
    pc # "init" =>
        /\ Range(generated) =
               {[v |-> t, E |-> ZeroOrderEnergy(freqs, t)] :
                    t \in TuplesBelow(freqs, Emax)}
        /\ Len(generated) = Cardinality(TuplesBelow(freqs, Emax))
        /\ (QLt(Emax, ZeroPointEnergy(freqs)) => generated = <<>>)

\* two modes, several states kept, one of them exactly at the ceiling and
\* the next quantum of either mode pruned
C1_Witness ==
    /\ pc = "basis"
    /\ Len(freqs) = 2
    /\ Len(generated) >= 4
    /\ \E i \in 1..Len(generated) : generated[i].E = Emax

StrictlyBefore(r1, r2) ==
    LET k1 == <<r1.E[1] * r2.E[2]>> \o r1.v
        k2 == <<r2.E[1] * r1.E[2]>> \o r2.v
    IN  \E j \in 1..Len(k1) :
            /\ k1[j] < k2[j]
            /\ \A l \in 1..(j - 1) : k1[l] = k2[l]

\* C2: the basis returned by zero_approximation is strictly ascending in
\* (E, v1, ..., vM) and its row index is 0..N-1 in that order.
C2_SortedAndIndexed ==
    pc = "basis" =>
        \A i \in 1..Len(zero_states) :
            /\ zero_states[i].idx = i - 1
            /\ i < Len(zero_states) =>
                   StrictlyBefore(zero_states[i], zero_states[i + 1])

\* the sort moved a row generated early behind a row generated later, and
\* two rows of one energy are ordered by their quantum numbers
C2_Witness ==
    /\ pc = "basis"
    /\ \E i, j \in 1..Len(generated) :
          /\ i < j
          /\ QLt(generated[j].E, generated[i].E)
    /\ \E i \in 1..(Len(zero_states) - 1) :
          zero_states[i].E = zero_states[i + 1].E


\* ------------------------------------------------------- claims C4, C8
\* C4: the matrix fill_wmat returns is exactly symmetric.
C4_WmatSymmetric ==
    pc = "wmat" =>
        \A i, j \in 1..Len(Wmat) : Wmat[i][j] = Wmat[j][i]

\* a basis of three states or more, two terms, and an entry off the
\* diagonal that is not zero
C4_Witness ==
    /\ pc = "wmat"
    /\ Len(Wmat) >= 3
    /\ Len(anh_coefs) = 2
    /\ \E i, j \in 1..Len(Wmat) : i > j /\ Wmat[i][j] # NumZero

HasOrderAbove8(anh) ==
    \E k \in 1..Len(anh) : \E l \in 1..Len(anh[k].ik) : anh[k].ik[l] > MaxOrder

\* C8: a term list in which some power exceeds 8 is assembled without
\* raising, the term of order above 8 adding nothing.
C8_OrderAbove8CountsAsZero ==
    (pc \in {"wmat", "raised"} /\ HasOrderAbove8(anh_coefs)) =>
        /\ raised = None
        /\ pc = "wmat"


\* ------------------------------------------------------------ claim C3
\* the (n, dv) whose weight is zero by rule
ZeroByRule(n, dv) == dv > n \/ (n - dv) % 2 = 1 \/ n > MaxOrder

\* C3 as stated: for dv > n, or n - dv odd, or n > 8, the weight is 0 from
\* the closed form MatElWeight(n, dv, v) and from the table alike.
C3_ZeroFromBothSources ==
    (pc = "asked" /\ ZeroByRule(query[1], query[2])) =>
        /\ closed_form = ZeroS
        /\ looked_up \in {<<>>, <<ZeroS>>}

\* C3 as the code has it: for dv > n, or n - dv odd, or n > 8, the table
\* holds no key (n, dv, v), which is the zero-test and counts as weight 0;
\* the closed form is 0 for n > 8 only.
C3_ZeroFromTable ==
    (pc = "asked" /\ ZeroByRule(query[1], query[2])) =>
        /\ looked_up = <<>>
        /\ (query[1] > MaxOrder => closed_form = ZeroS)

\* an order the table covers, asked with a dv of the wrong parity: the
\* key is absent while the closed form gives a non-zero value
C3_Witness ==
    /\ pc = "asked"
    /\ query[1] <= tab_n
    /\ query[2] <= query[1]
    /\ ZeroByRule(query[1], query[2])
    /\ looked_up = <<>>
    /\ closed_form # ZeroS


\* ------------------------------------------------------------ claim C5
\* dot(v + 1/2, shifts) for one state
ShiftOf(row, sh) ==
    QSum([l \in 1..Len(sh) |-> Frac((2 * row.v[l] + 1) * sh[l][1], 2 * sh[l][2])])

\* C5: the Hamiltonian add_zero_approx gives after any number of
\* shift_freqs calls equals the one it gave before them; each call adds
\* dot(v + 1/2, shifts) to a state's energy, subtracts it from the
\* matching diagonal entry of W, leaves the rest of W and the quantum
\* numbers alone, and changes nothing when the shift is all zero.
C5_ShiftKeepsHamiltonian ==
    [][ /\ (Hmat' # <<>> /\ Hprev' # <<>>) => Hmat'[2] = Hprev'[2]
        /\ nshift' = nshift + 1 =>
              /\ \A i \in 1..Len(zero_states) :
                    /\ zero_states'[i].E =
                          QAdd(zero_states[i].E, ShiftOf(zero_states[i], shifts'))
                    /\ Wmat'[i][i] =
                          NumSub(Wmat[i][i],
                                 NumOfQ(ShiftOf(zero_states[i], shifts')))
                    /\ zero_states'[i].v = zero_states[i].v
                    /\ zero_states'[i].idx = zero_states[i].idx
                    /\ \A j \in 1..Len(zero_states) :
                          j # i => Wmat'[i][j] = Wmat[i][j]
              /\ Len(zero_states') = Len(zero_states)
              /\ (\A l \in 1..Len(shifts') : shifts'[l] = QInt(0)) =>
                    (zero_states' = zero_states /\ Wmat' = Wmat)
      ]_vars

\* the Hamiltonian was computed before the first shift and again after two
\* shifts, the last of them not zero, on a basis of three states or more
\* coupled off the diagonal
C5_Witness ==
    /\ Hprev # <<>>
    /\ Hmat # <<>>
    /\ Hprev[1] = 0
    /\ Hmat[1] >= 2
    /\ Len(zero_states) >= 3
    /\ \E l \in 1..Len(shifts) : shifts[l] # QInt(0)
    /\ \E i, j \in 1..Len(Wmat) : i # j /\ Wmat[i][j] # NumZero

\* ------------------------------------------------- claims C6, C9, C10
Trace(H) == QSum([i \in 1..Len(H) |-> H[i][i]])

\* the reference energy: E0 as the caller gave it, or the lowest eigenvalue
\* when it was left out
UsedE0 ==
    IF E0 # <<>> THEN E0[1]
    ELSE CHOOSE x \in Range(Eigh_values) :
            \A y \in Range(Eigh_values) : QLe(x, y)

\* C6: the corrected energies diag_hmat returns, summed, plus N times the
\* reference energy give trace(H); every eigenvalue, less the reference
\* energy, is the energy of exactly one output state, and with E0 left out
\* the lowest corrected energy is 0.
C6_TraceKept ==
    pc = "diagonal" =>
        LET N == Len(diag_Hmat)
        IN  /\ Len(vib_states) = N
            /\ QAdd(QSum([a \in 1..N |-> vib_states[a].E]),
                    QMul(QInt(N), UsedE0)) = Trace(diag_Hmat)
            /\ \A k \in 1..N :
                  Cardinality({a \in 1..N :
                      QAdd(vib_states[a].E, UsedE0) = Eigh_values[k]})
                    = Cardinality({l \in 1..N : Eigh_values[l] = Eigh_values[k]})
            /\ E0 = <<>> =>
                  \A a \in 1..N : QLe(QInt(0), vib_states[a].E)

\* three states, a reference energy that is not 0, two basis rows given
\* one label, and the first row of the basis moved from its place
C6_Witness ==
    /\ pc = "diagonal"
    /\ Len(vib_states) = 3
    /\ E0 = <<Frac(1, 2)>>
    /\ \E i, j \in 1..3 : i # j /\ new_index[i] = new_index[j]
    /\ vib_states[1].v # basis_arg[1].v

\* the basis row whose squared component in eigenvector k is the largest,
\* when one row has it alone
HasOwner(P, k) ==
    \E i \in 1..Len(P) : \A j \in 1..Len(P) : j # i => QLt(P[j][k], P[i][k])

Owner(P, k) ==
    CHOOSE i \in 1..Len(P) : \A j \in 1..Len(P) : j # i => QLt(P[j][k], P[i][k])

\* C9: each eigenvector k goes to the basis row i with the largest
\* |V[i,k]|^2; whenever that assignment is one-to-one, the output state
\* with the quantum numbers of row i has the energy lambda_k - E0.
C9_LabelsByEigenvector ==
    pc = "diagonal" =>
        LET P == SquaredVectors(Eigh_vectors)
            N == Len(P)
        IN  (/\ \A k \in 1..N : HasOwner(P, k)
             /\ \A k, l \in 1..N : Owner(P, k) = Owner(P, l) => k = l)
            => \A k \in 1..N :
                  \E a \in 1..N :
                     /\ vib_states[a].v = basis_arg[Owner(P, k)].v
                     /\ vib_states[a].E = QSub(Eigh_values[k], UsedE0)

\* C10: the basis passed to diag_hmat holds, after the call, the rows it
\* held before it, in the same order and with the same energies.
C10_BasisUntouched ==
    pc = "diagonal" => zero_states = basis_arg

\* ------------------------------------------------------------ claim C7
\* W x for the symmetric W
MatVec(W, x) ==
    [i \in 1..Len(x) |-> NumSum([j \in 1..Len(x) |-> NumMul(W[i][j], x[j])])]

\* sum_{k = 1..n-1} E(k) psi(n - k), psis and Es holding psi(1..n-1) and
\* E(1..n-1)
Renormalisation(psis, Es, n) ==
    LET RECURSIVE Sum(_)
        Sum(k) == IF k = 0 THEN [i \in 1..Len(psis[1]) |-> NumZero]
                  ELSE VecAdd(VecTimes(psis[n - k], Es[k]), Sum(k - 1))
    IN  Sum(n - 1)

\* psi(1..n) and E(1..n+1) from psi(1..n-1) and E(1..n):
\* psi(n) = R (W psi(n-1) - sum_k E(k) psi(n-k)), E(n+1) = <q|W|psi(n)>
RSStep(W, Ed, row, st) ==
    LET n == Len(st.psis) + 1
        psi == VecScale(Ed, VecSub(MatVec(W, st.psis[n - 1]),
                                   Renormalisation(st.psis, st.Es, n)))
    IN  [psis |-> Append(st.psis, psi), Es |-> Append(st.Es, VecDot(row, psi))]

RECURSIVE RSLoop(_, _, _, _, _)
RSLoop(Nmax_, W, Ed, row, st) ==
    IF Len(st.Es) >= Nmax_ THEN st.Es
    ELSE CHOOSE r \in {RSLoop(Nmax_, W, Ed, row, nx) :
                          nx \in {RSStep(W, Ed, row, st)}} : TRUE

\* the Rayleigh-Schrodinger energy corrections E(1), ..., E(Nmax) of state
\* q for H0 + lambda W
RayleighSchrodinger(q0, states, W, Nmax_) ==
    LET start(Ed, row, psi) ==
            RSLoop(Nmax_, W, Ed, row,
                   [psis |-> <<psi>>,
                    Es |-> <<W[q0 + 1][q0 + 1], VecDot(row, psi)>>])
    IN  CHOOSE r \in {start(Ed, W[q0 + 1], psi) :
                        Ed \in {EnergyDenominators(q0, states)},
                        psi \in {VecScale(EnergyDenominators(q0, states),
                                          W[q0 + 1])}} : TRUE

\* C7: for a symmetric W, a state q whose energy no other state has and
\* Nmax >= 2, RSPT_series returns Nmax values, e[k] being the
\* Rayleigh-Schrodinger energy correction of order k + 1 of state q.
C7_SeriesIsRayleighSchrodinger ==
    pc = "series" =>
        /\ Len(series_e) = series_Nmax
        /\ series_e = RayleighSchrodinger(series_q, zero_states, Wmat,
                                          series_Nmax)

\* ----------------------------------------------------------- claim C11
\* the weight of (n, dv, v): 0 by the zero rule, else the closed form
RuleWeight(n, dv, v) ==
    IF ZeroByRule(n, dv) THEN ZeroS ELSE MatElWeight(n, dv, v)

\* the weights of term k between the states i and j, mode by mode
TermWeights(anh, states, k, i, j) ==
    [l \in 1..Len(states[i].v) |->
        RuleWeight(anh[k].ik[l],
                   Abs(states[i].v[l] - states[j].v[l]),
                   IF states[i].v[l] >= states[j].v[l]
                   THEN states[i].v[l] ELSE states[j].v[l])]

\* some mode of term k is excluded between i and j by dv > ik or by parity
TermExcluded(anh, states, k, i, j) ==
    \E l \in 1..Len(states[i].v) :
        LET dv == Abs(states[i].v[l] - states[j].v[l])
        IN  dv > anh[k].ik[l] \/ (anh[k].ik[l] - dv) % 2 = 1

\* sum over the terms of coef * product of the weights, a term counted
\* only when none of its weights is 0
ProductRuleSum(anh, states, i, j) ==
    NumSum([k \in 1..Len(anh) |->
        LET w == TermWeights(anh, states, k, i, j)
        IN  IF \A l \in 1..Len(w) : w[l] # ZeroS
            THEN NumOfSurd(SurdScale(anh[k].k, SurdProd(w)))
            ELSE NumZero])

\* C11: every entry W[i,j] of the matrix fill_wmat returns is the sum over
\* the terms of coef * product over the modes of weight(ik_l, |dv_l|,
\* max v_l), a term counting only if all its weights are non-zero; W[i,j]
\* is 0 when every term has a mode excluded by dv > ik or by parity.
C11_ProductRule ==
    pc = "wmat" =>
        \A i, j \in 1..Len(zero_states) :
            /\ Wmat[i][j] = ProductRuleSum(anh_coefs, zero_states, i, j)
            /\ (\A k \in 1..Len(anh_coefs) :
                    TermExcluded(anh_coefs, zero_states, k, i, j))
               => Wmat[i][j] = NumZero

\* two modes, two terms that both count in one entry below the diagonal,
\* and another entry that is 0 because every term is excluded
C11_Witness ==
    /\ pc = "wmat"
    /\ Len(freqs) = 2
    /\ Len(anh_coefs) = 2
    /\ \E i, j \in 1..Len(zero_states) :
          /\ i > j
          /\ \A k \in 1..2 :
                \A l \in 1..2 :
                   TermWeights(anh_coefs, zero_states, k, i, j)[l] # ZeroS
          /\ Wmat[i][j] # NumZero
    /\ \E i, j \in 1..Len(zero_states) :
          /\ \A k \in 1..2 : TermExcluded(anh_coefs, zero_states, k, i, j)
          /\ Wmat[i][j] = NumZero

\* ----------------------------------------------------------- claim C12
\* the triples (n, dv, v) with 0 <= n <= nmax, 0 <= dv <= n, n - dv even
\* and 0 <= v <= vmax
ValidKeys(vmax, nmax) ==
    {k \in (0..nmax) \X (0..nmax) \X (0..vmax) :
        k[2] <= k[1] /\ (k[1] - k[2]) % 2 = 0}

\* C12: for nmax in 0..8 the table MatElWeightDict(vmax, nmax) has exactly
\* the valid triples as keys, and under each key (n, dv, v) the value of
\* the closed form MatElWeight(n, dv, v).
C12_TableIsClosedForm ==
    (pc = "table" /\ tab_n <= MaxOrder) =>
        /\ DOMAIN Harm_weight_dict = ValidKeys(tab_vmax, tab_n)
        /\ \A k \in DOMAIN Harm_weight_dict :
              Harm_weight_dict[k] = MatElWeight(k[1], k[2], k[3])

\* the table of all nine orders up to the largest quantum number, holding
\* weights with a root, weights without, and weights that are 0
C12_Witness ==
    /\ pc = "table"
    /\ tab_n = MaxOrder
    /\ tab_vmax = MaxV
    /\ Harm_weight_dict[<<7, 7, MaxV>>].r # 1
    /\ Harm_weight_dict[<<8, 0, MaxV>>].c[1] > 1
    /\ Harm_weight_dict[<<3, 3, 2>>] = ZeroS

\* ----------------------------------------------------------- claim C13
\* eigenvector l is the last of two or more eigenvectors whose largest
\* squared component is on basis row i
LastClaimant(P, l, i) ==
    /\ HasOwner(P, l)
    /\ Owner(P, l) = i
    /\ \E k \in 1..(l - 1) : HasOwner(P, k) /\ Owner(P, k) = i
    /\ \A m \in (l + 1)..Len(P) : ~(HasOwner(P, m) /\ Owner(P, m) = i)

\* C13 as stated: when two eigenvectors claim one basis index, the later
\* assignment survives: the output state with the quantum numbers of that
\* basis row carries the later eigenvector's energy.
C13_LaterAssignmentWins ==
    pc = "diagonal" =>
        LET P == SquaredVectors(Eigh_vectors)
        IN  \A i, l \in 1..Len(P) :
               LastClaimant(P, l, i) =>
                  \E a \in 1..Len(P) :
                     /\ vib_states[a].v = basis_arg[i].v
                     /\ vib_states[a].E = QSub(Eigh_values[l], UsedE0)

\* C13 as the code has it: a label given to two basis rows overwrites
\* nothing.  All N rows are kept, in an order in which the labels ascend
\* (the order passed in when the labels ascend already), and the
\* eigenvalues, less the reference energy, are written onto them by
\* position, one to a row.
C13_NothingOverwritten ==
    (pc = "diagonal" /\ \E i, j \in 1..Len(new_index) :
                            i # j /\ new_index[i] = new_index[j]) =>
        \E p \in SortIndexOrders(new_index) :
            /\ Len(vib_states) = Len(basis_arg)
            /\ \A a \in 1..Len(vib_states) :
                  /\ vib_states[a].v = basis_arg[p[a]].v
                  /\ vib_states[a].E = QSub(Eigh_values[a], UsedE0)
                  /\ vib_states[a].idx = a - 1
            /\ \A i, j \in 1..Len(p) : p[i] = p[j] => i = j

\* three states, the last two basis rows given one label and the first
\* row a larger one, so that the sort moves the first row behind them
C13_Witness ==
    /\ pc = "diagonal"
    /\ Len(new_index) = 3
    /\ new_index[2] = new_index[3]
    /\ new_index[1] > new_index[2]
    /\ vib_states[3].v = basis_arg[1].v


\* ----------------------------------------------------------- claim C14
\* the vector whose product with W[q,:] gives e[0] = W[q,q]: the zero-order
\* state q itself
ZeroOrderPsi(q0, N) ==
    [i \in 1..N |-> IF i = q0 + 1 THEN NumOfQ(QInt(1)) ELSE NumZero]

\* the accumulator at order i, written out as a sum: the terms
\* psi_(m - lag) * e[m - 2] for m = 2..i; psis[k + 1] is psi_k and es[k + 1]
\* is e[k]
Accumulator(psis, es, i, lag) ==
    LET RECURSIVE Sum(_)
        Sum(m) == IF m < 2 THEN [j \in 1..Len(psis[1]) |-> NumZero]
                  ELSE VecAdd(VecTimes(psis[m - lag + 1], es[m - 1]),
                              Sum(m - 1))
    IN  Sum(i)

\* order i = Len(st.es): psi_i = E_d * (psi_(i-1) W - S), e[i] = psi_i . W[q,:]
StatedStep(W, Ed, row, lag, st) ==
    LET i == Len(st.es)
        psi == VecScale(Ed, VecSub(VecMat(st.psis[i], W),
                                   Accumulator(st.psis, st.es, i, lag)))
    IN  [psis |-> Append(st.psis, psi), es |-> Append(st.es, VecDot(psi, row))]

RECURSIVE StatedLoop(_, _, _, _, _, _)
StatedLoop(Nmax_, W, Ed, row, lag, st) ==
    IF Len(st.es) >= Nmax_ THEN st.es
    ELSE CHOOSE r \in {StatedLoop(Nmax_, W, Ed, row, lag, nx) :
                          nx \in {StatedStep(W, Ed, row, lag, st)}} : TRUE

\* e[0..Nmax-1] of the recurrence in which the accumulator gains
\* psi_(i - lag) * e[i - 2] at order i
StatedSeries(q0, states, W, Nmax_, lag) ==
    LET Ed == [i \in 1..Len(states) |->
                 IF i = q0 + 1 THEN QInt(0)
                 ELSE QDiv(QInt(1), QSub(states[q0 + 1].E, states[i].E))]
        start(row, psi) ==
            StatedLoop(Nmax_, W, Ed, row, lag,
                       [psis |-> <<ZeroOrderPsi(q0, Len(W)), psi>>,
                        es |-> <<W[q0 + 1][q0 + 1], VecDot(psi, row)>>])
    IN  CHOOSE r \in {start(W[q0 + 1], psi) :
                        psi \in {VecScale(Ed, W[q0 + 1])}} : TRUE

\* C14 as stated: RSPT_series returns e with E_d[q] = 0,
\* E_d[i] = 1/(E_q - E_i), e[0] = W[q,q], psi_1 = W[q,:]*E_d,
\* e[1] = psi_1 . W[q,:], and at each order i = 2..Nmax-1 the accumulator S
\* first gains psi_(i-2) * e[i-2], then psi_i = E_d * (psi_(i-1) W - S) and
\* e[i] = psi_i . W[q,:], psi_k being the vector that gives e[k].
C14_AccumulatesPsiTwoBack ==
    pc = "series" =>
        series_e = StatedSeries(series_q, zero_states, Wmat, series_Nmax, 2)

\* C14, amended: the same recurrence, but at order i the accumulator gains
\* psi_(i-1) * e[i-2]: the vector that gave e[i-1] times the coefficient
\* e[i-2].
C14_AccumulatesPsiOneBack ==
    pc = "series" =>
        /\ Len(series_e) = series_Nmax
        /\ series_e = StatedSeries(series_q, zero_states, Wmat, series_Nmax, 1)

\* four coefficients of a state with a non-zero second coefficient, for
\* which the two readings of the accumulator give different series
C14_Witness ==
    /\ pc = "series"
    /\ series_Nmax = MaxNmax
    /\ Len(zero_states) >= 2
    /\ series_e[2] # NumZero
    /\ series_e # StatedSeries(series_q, zero_states, Wmat, series_Nmax, 2)


\* ----------------------------------------------------------- claim C15
DistinctTuples(states) ==
    \A i, j \in 1..Len(states) : states[i].v = states[j].v => i = j

\* the row with the energy it had before any shift: sum freqs[l] (v[l] + 1/2)
Unshifted(row) ==
    [row EXCEPT !.E = QSum([l \in 1..Len(freqs) |->
                               Frac(freqs[l] * (2 * row.v[l] + 1), 2)])]

\* C15 as stated: in every reachable state, after zero_approximation and
\* any sequence of shift_freqs calls, the basis has pairwise distinct
\* quantum-number tuples and its rows ascend in (E, v1, ..., vM).
C15_OrderingInvariant ==
    /\ DistinctTuples(zero_states)
    /\ \A i \in 1..(Len(zero_states) - 1) :
          StrictlyBefore(zero_states[i], zero_states[i + 1])

\* C15, amended: after zero_approximation and any sequence of shift_freqs
\* calls the basis has pairwise distinct quantum-number tuples and its rows
\* are in the order zero_approximation gave them, ascending in
\* (E, v1, ..., vM) for the energies before the shifts, with the index
\* 0..N-1.
C15_UnshiftedOrderKept ==
    /\ DistinctTuples(zero_states)
    /\ \A i \in 1..Len(zero_states) : zero_states[i].idx = i - 1
    /\ \A i \in 1..(Len(zero_states) - 1) :
          StrictlyBefore(Unshifted(zero_states[i]),
                         Unshifted(zero_states[i + 1]))

\* two shifts made, the basis of two modes, and a row whose shifted energy
\* is above that of the row after it
C15_Witness ==
    /\ nshift = 2
    /\ Len(freqs) = 2
    /\ \E i \in 1..(Len(zero_states) - 1) :
          QLt(zero_states[i + 1].E, zero_states[i].E)

====
